---------------------------- MODULE Spec2Model ----------------------------
(***************************************************************************)
(* Model of the seller-apis synchroniser: src/seller.py (the Ozon adapter) *)
(* and src/market.py (the Yandex Market adapter).                          *)
(*                                                                         *)
(* Text values whose characters the code inspects (the raw quantity and    *)
(* the raw price of an inventory row) are sequences of one-character       *)
(* strings, so that int(), == ">10", split(".") and re.sub are modelled by *)
(* what they do to the characters.  Product codes and offer ids are only   *)
(* compared for equality and are TLA+ strings.                             *)
(***************************************************************************)
EXTENDS Integers, Sequences, FiniteSets, TLC

VARIABLES
    adapter,         \* "seller" (src/seller.py) or "market" (src/market.py)
    watch_remnants,  \* the inventory rows (download_stock's result)
    offer_ids,       \* the offer-id list, mutated in place by create_stocks
    offer_ids_in,    \* the offer-id list as it was when the builder was called
    stocks,          \* the stock records built so far
    prices,          \* the price records built so far
    i,               \* index of the next element a for-loop visits
    pc,              \* position of the control flow
    lst,             \* divide: the list being split
    n,               \* divide: the chunk size
    yielded,         \* divide: the batches yielded so far
    target,          \* main: the marketplace target in hand ("ozon", "fbs", "dbs")
    feed,            \* main: the rows the supplier's site serves
    listing,         \* main: the offer ids each marketplace account holds
    page,            \* get_offer_ids: the cursor of the next page request
    product_list,    \* get_offer_ids: the items accumulated so far
    queue,           \* main: the batches of the running upload loop not yet sent
    calls,           \* main: the requests issued so far, in order, with their outcome
    coroutines,      \* main: coroutine objects created and never awaited
    outcome,         \* main: "running", "returned" or "escaped" (an error left main)
    message,         \* main: what an except clause printed ("" when none did)
    price,           \* price_conversion: the argument of the call in hand
    part,            \* price_conversion: price.split(".")[0]
    converted,       \* price_conversion: the values returned so far
    responses,       \* get_offer_ids: the page responses received so far
    edits,           \* the marketplace: how often the listing has changed
    parity           \* get_offer_ids: the number of page requests sent, modulo 2

builderVars == <<adapter, watch_remnants, offer_ids, offer_ids_in, stocks, prices, i, pc>>
builderVars_but_pc == <<adapter, watch_remnants, offer_ids, offer_ids_in, stocks, prices, i>>
divideVars == <<lst, n, yielded>>
mainVars == <<target, feed, listing, page, product_list, queue, calls, coroutines,
              outcome, message>>
convertVars == <<price, part, converted>>
fetchVars == <<responses, edits, parity>>
vars == <<builderVars, divideVars, mainVars, convertVars, fetchVars>>

----------------------------------------------------------------------------
(* Bounds of the model.                                                    *)

MaxRows == 2        \* inventory rows of a builder run
MaxIds == 3         \* offer ids of a builder run
MaxLen == 4         \* length of a list given to divide
MaxChunk == 3       \* chunk size given to divide
MaxFeed == 2        \* rows of the supplier feed in a run of main
MaxPrice == 4       \* characters of a price given to price_conversion
MaxRequests == 3    \* page requests of one get_offer_ids call
MaxTotal == 2       \* the "total" an Ozon page response reports
MaxEdits == 1       \* changes of a listing while it is being paged through
MaxListing == 3     \* offer ids a marketplace account holds in a run of main
ServerPage == 2     \* items a marketplace returns per page (at most the limit asked)

(* The chunk sizes of the upload loops of main.  The code's sizes are 100  *)
(* and 900 (seller.py) and 2000 (market.py); a run of the model holds a    *)
(* handful of records, so the sizes are scaled down to let a loop send     *)
(* more than one batch.  divide itself is checked for every size up to     *)
(* MaxChunk under SpecDivide.                                              *)
SellerStocksChunk == 2
SellerPricesChunk == 2
MarketStocksChunk == 2

----------------------------------------------------------------------------
(* Text.                                                                   *)

Digits == {"0", "1", "2", "3", "4", "5", "6", "7", "8", "9"}

DigitVal(c) ==
    CASE c = "0" -> 0 [] c = "1" -> 1 [] c = "2" -> 2 [] c = "3" -> 3
      [] c = "4" -> 4 [] c = "5" -> 5 [] c = "6" -> 6 [] c = "7" -> 7
      [] c = "8" -> 8 [] c = "9" -> 9

AllDigits(s) == \A k \in 1..Len(s) : s[k] \in Digits

RECURSIVE DigitsValue(_)
DigitsValue(s) ==
    IF s = <<>> THEN 0
    ELSE 10 * DigitsValue(SubSeq(s, 1, Len(s) - 1)) + DigitVal(s[Len(s)])

(* Python's int(str): an optional sign and at least one decimal digit;     *)
(* anything else raises ValueError.  (The surrounding blanks and the       *)
(* digit-group underscores int() also accepts are outside the alphabet of  *)
(* the sampled texts.)                                                     *)
IntParses(s) ==
    /\ s # <<>>
    /\ LET body == IF s[1] \in {"-", "+"} THEN Tail(s) ELSE s
       IN  body # <<>> /\ AllDigits(body)

IntValue(s) ==
    IF s[1] = "-" THEN 0 - DigitsValue(Tail(s))
    ELSE IF s[1] = "+" THEN DigitsValue(Tail(s))
    ELSE DigitsValue(s)

(* A split that cuts nothing: the whole text is taken as its first piece.  *)
BeforeDotWhole(s) == s

(* price.split(".")[0]: the text before the first "." (all of it when it   *)
(* has none).                                                              *)
RECURSIVE BeforeDot(_)
BeforeDot(s) ==
    IF s = <<>> \/ s[1] = "." THEN <<>>
    ELSE <<s[1]>> \o BeforeDot(Tail(s))

(* re.sub("[^0-9]", "", t): every character that is no digit is removed.   *)
RECURSIVE OnlyDigits(_)
OnlyDigits(s) ==
    IF s = <<>> THEN <<>>
    ELSE (IF s[1] \in Digits THEN <<s[1]>> ELSE <<>>) \o OnlyDigits(Tail(s))

price_conversion(p) == OnlyDigits(BeforeDot(p))

----------------------------------------------------------------------------
(* Lists.                                                                  *)

Elems(s) == {s[k] : k \in 1..Len(s)}

(* list.remove(x): the first element equal to x is removed.                *)
RECURSIVE Remove(_, _)
Remove(s, x) ==
    IF s = <<>> THEN <<>>
    ELSE IF s[1] = x THEN Tail(s)
    ELSE <<s[1]>> \o Remove(Tail(s), x)

SeqsUpTo(S, m) == UNION {[1..k -> S] : k \in 0..m}

----------------------------------------------------------------------------
(* Stock record builder: create_stocks of both adapters.                   *)

Date == "utcnow"     \* one timestamp per create_stocks call (market.py)

(* The record one adapter appends for offer id `id` and count `stock`.     *)
StockRecord(ad, warehouse_id, id, stock) ==
    IF ad = "seller"
    THEN [offer_id |-> id, stock |-> stock]
    ELSE [sku |-> id, warehouseId |-> warehouse_id,
          items |-> <<[count |-> stock, type |-> "FIT", updatedAt |-> Date]>>]

StockId(ad, r) == IF ad = "seller" THEN r.offer_id ELSE r.sku
StockOf(ad, r) == IF ad = "seller" THEN r.stock ELSE r.items[1].count

(* Faulty variants of StockCount, used to show that the properties below   *)
(* depend on it: the "1" branch dropped; a failed parse zeroed silently.   *)
StockCountNoOneBranch(count) ==
    IF count = <<">", "1", "0">> THEN [ok |-> TRUE, stock |-> 100]
    ELSE IF IntParses(count) THEN [ok |-> TRUE, stock |-> IntValue(count)]
    ELSE [ok |-> FALSE, stock |-> 0]

StockCountSilentZero(count) ==
    IF count = <<">", "1", "0">> THEN [ok |-> TRUE, stock |-> 100]
    ELSE IF count = <<"1">> THEN [ok |-> TRUE, stock |-> 0]
    ELSE IF IntParses(count) THEN [ok |-> TRUE, stock |-> IntValue(count)]
    ELSE [ok |-> TRUE, stock |-> 0]

(* The quantity branches of create_stocks: [ok, stock]; ok = FALSE is the  *)
(* ValueError int() raises.                                                *)
StockCount(count) ==
    IF count = <<">", "1", "0">> THEN [ok |-> TRUE, stock |-> 100]
    ELSE IF count = <<"1">> THEN [ok |-> TRUE, stock |-> 0]
    ELSE IF IntParses(count) THEN [ok |-> TRUE, stock |-> IntValue(count)]
    ELSE [ok |-> FALSE, stock |-> 0]

(* One iteration of the first loop of create_stocks on the row `watch`,    *)
(* from the loop state st = [stocks, offer_ids, raised].                   *)
StocksRow(ad, warehouse_id, st, watch) ==
    IF watch.code \in Elems(st.offer_ids)
    THEN LET c == StockCount(watch.quantity)
         IN  IF c.ok
             THEN [stocks |-> Append(st.stocks,
                                 StockRecord(ad, warehouse_id, watch.code, c.stock)),
                   offer_ids |-> Remove(st.offer_ids, watch.code),
                   raised |-> FALSE]
             ELSE [st EXCEPT !.raised = TRUE]
    ELSE st

(* One iteration of the second loop: a zero-count record for offer_id.     *)
StocksDefault(ad, warehouse_id, st, offer_id) ==
    [st EXCEPT !.stocks = Append(@, StockRecord(ad, warehouse_id, offer_id, 0))]

----------------------------------------------------------------------------
(* Sampled inputs.                                                         *)

Codes == {"101", "102"}

QuantityTexts ==
    { <<">", "1", "0">>, <<"1">>, <<"5">>, <<"0">>, <<"1", "0">>,
      <<"n", "u", "l", "l">>, <<>> }

PriceFormatted == <<"5", "'", "9", "9", "0", ".", "0", "0", " ", "p">>
PriceWord == <<"p", "r", "i", "c", "e">>
PricePlain == <<"5", "9", "9", "0">>

Row(c, p, q) == [code |-> c, price |-> p, quantity |-> q]

(* Rows of the stock-builder runs: every sampled quantity, and the two     *)
(* sentinels also under another price.                                     *)
StockRows ==
    {Row(c, PriceFormatted, q) : c \in Codes, q \in QuantityTexts}
        \cup {Row(c, PriceWord, q) : c \in Codes, q \in {<<">", "1", "0">>, <<"1">>}}

WarehouseOf(ad) == IF ad = "seller" THEN "none" ELSE "WAREHOUSE_FBS_ID"

----------------------------------------------------------------------------
(* create_stocks, one loop iteration per step.                             *)

(* The variables a specification does not use keep these values. *)
DivideIdle == lst = <<>> /\ n = 1 /\ yielded = <<>>

ConvertIdle == price = <<>> /\ part = <<>> /\ converted = <<>>

FetchIdle == responses = <<>> /\ edits = 0 /\ parity = 0

MainIdle ==
    /\ target = "none" /\ feed = <<>> /\ listing = <<>> /\ page = 0
    /\ product_list = <<>> /\ queue = <<>> /\ calls = <<>> /\ coroutines = <<>>
    /\ outcome = "none" /\ message = ""

LoopState == [stocks |-> stocks, offer_ids |-> offer_ids, raised |-> FALSE]

InitStocks ==
    /\ adapter \in {"seller", "market"}
    /\ watch_remnants \in SeqsUpTo(StockRows, MaxRows)
    /\ offer_ids \in SeqsUpTo(Codes, MaxIds)
    /\ offer_ids_in = offer_ids
    /\ stocks = <<>>
    /\ prices = <<>>
    /\ i = 1
    /\ pc = "rows"
    /\ DivideIdle
    /\ MainIdle
    /\ ConvertIdle
    /\ FetchIdle

(* for watch in watch_remnants: ... (one row) *)
create_stocks_row ==
    /\ pc = "rows"
    /\ i <= Len(watch_remnants)
    /\ LET st == StocksRow(adapter, WarehouseOf(adapter), LoopState, watch_remnants[i])
       IN  /\ stocks' = st.stocks
           /\ offer_ids' = st.offer_ids
           /\ pc' = IF st.raised THEN "raised" ELSE "rows"
           /\ i' = IF st.raised THEN i ELSE i + 1
    /\ UNCHANGED <<adapter, watch_remnants, offer_ids_in, prices, divideVars, convertVars, fetchVars, mainVars>>

(* the first loop is exhausted: the second loop starts *)
create_stocks_rows_done ==
    /\ pc = "rows"
    /\ i > Len(watch_remnants)
    /\ pc' = "fill"
    /\ i' = 1
    /\ UNCHANGED <<adapter, watch_remnants, offer_ids, offer_ids_in, stocks, prices, divideVars, convertVars, fetchVars, mainVars>>

(* for offer_id in offer_ids: ... (one id) *)
create_stocks_default ==
    /\ pc = "fill"
    /\ i <= Len(offer_ids)
    /\ stocks' = StocksDefault(adapter, WarehouseOf(adapter), LoopState, offer_ids[i]).stocks
    /\ i' = i + 1
    /\ UNCHANGED <<adapter, watch_remnants, offer_ids, offer_ids_in, prices, pc, divideVars, convertVars, fetchVars, mainVars>>

(* return stocks *)
create_stocks_return ==
    /\ pc = "fill"
    /\ i > Len(offer_ids)
    /\ pc' = "returned"
    /\ UNCHANGED <<adapter, watch_remnants, offer_ids, offer_ids_in, stocks, prices, i, divideVars, convertVars, fetchVars, mainVars>>

NextStocks ==
    \/ create_stocks_row
    \/ create_stocks_rows_done
    \/ create_stocks_default
    \/ create_stocks_return

SpecStocks == InitStocks /\ [][NextStocks]_vars

----------------------------------------------------------------------------
(* Properties of create_stocks (checked under SpecStocks).                 *)

Occurrences(s, x) == Cardinality({k \in 1..Len(s) : s[k] = x})

StockIds == [k \in 1..Len(stocks) |-> StockId(adapter, stocks[k])]

(* C1: when create_stocks has returned, every offer id of the list it was  *)
(* called with is the id of exactly one record of the returned batch.      *)
C1_EveryOfferIdExactlyOnce ==
    pc = "returned" =>
        \A id \in Elems(offer_ids_in) : Occurrences(StockIds, id) = 1

(* The codes of the inventory rows that match a supplied offer id, in row  *)
(* order; of several rows with one code the first is the matching one (a   *)
(* later one finds the id consumed).                                       *)
RowIndices == [k \in 1..Len(watch_remnants) |-> k]
RowMatches(k) ==
    /\ watch_remnants[k].code \in Elems(offer_ids_in)
    /\ \A j \in 1..(k - 1) : watch_remnants[j].code # watch_remnants[k].code
MatchedRowIndices == SelectSeq(RowIndices, RowMatches)
MatchedCodes == [k \in 1..Len(MatchedRowIndices) |-> watch_remnants[MatchedRowIndices[k]].code]

(* The supplied offer ids that no inventory row matches, in supplied order. *)
IsUnmatched(id) == \A k \in 1..Len(watch_remnants) : watch_remnants[k].code # id
UnmatchedOfferIds == SelectSeq(offer_ids_in, IsUnmatched)

(* C12: when create_stocks has returned, the batch holds the records of    *)
(* the matched inventory rows in row order, then a zero-count record for   *)
(* every unmatched offer id in supplied order; and the offer-id list holds *)
(* exactly the offer ids no inventory row matched, in their original       *)
(* order.                                                                  *)
C12_MatchedThenUnmatchedAndListConsumed ==
    pc = "returned" =>
        /\ StockIds = MatchedCodes \o UnmatchedOfferIds
        /\ \A k \in (Len(MatchedCodes) + 1)..Len(stocks) : StockOf(adapter, stocks[k]) = 0
        /\ offer_ids = UnmatchedOfferIds

(* The decimal text of a natural number. *)
DigitText(d) ==
    CASE d = 0 -> "0" [] d = 1 -> "1" [] d = 2 -> "2" [] d = 3 -> "3"
      [] d = 4 -> "4" [] d = 5 -> "5" [] d = 6 -> "6" [] d = 7 -> "7"
      [] d = 8 -> "8" [] d = 9 -> "9"

RECURSIVE ToText(_)
ToText(v) == IF v < 10 THEN <<DigitText(v)>> ELSE ToText(v \div 10) \o <<DigitText(v % 10)>>

(* What the quantity policy asks of the count c emitted for raw quantity q. *)
PolicyCount(q, c) ==
    IF q = <<">", "1", "0">> THEN c = 100
    ELSE IF q = <<"1">> THEN c = 0
    ELSE c >= 0 /\ ToText(c) = q

KnownWhenProcessed(k) ==
    Occurrences(offer_ids_in, watch_remnants[k].code)
        > Cardinality({j \in 1..(k - 1) : watch_remnants[j].code = watch_remnants[k].code})

NumericText(q) == q # <<>> /\ \A k \in 1..Len(q) : q[k] \in Digits

BadQuantity(q) == q # <<">", "1", "0">> /\ q # <<"1">> /\ ~NumericText(q)

(* C7: create_stocks ends in a value-parsing error, with no list returned, *)
(* exactly when some row whose code is a known offer id when it is         *)
(* processed has a quantity that is neither ">10" nor "1" nor numeric; the *)
(* failing row has produced no record; a bad quantity on a row whose code  *)
(* is not known never fails.                                               *)
C7_FailsExactlyOnBadMatchedQuantity ==
    /\ pc \in {"returned", "raised"} =>
          ( pc = "raised" <=>
              \E k \in 1..Len(watch_remnants) :
                  KnownWhenProcessed(k) /\ BadQuantity(watch_remnants[k].quantity) )
    /\ pc = "raised" =>
          /\ KnownWhenProcessed(i) /\ BadQuantity(watch_remnants[i].quantity)
          /\ Len(stocks) = Cardinality({j \in 1..(i - 1) : KnownWhenProcessed(j)})
          /\ ~ ENABLED NextStocks

C7_Witness ==
    /\ pc = "raised"
    /\ i = 2
    /\ watch_remnants[2].quantity = <<"n", "u", "l", "l">>
    /\ Len(stocks) = 1

----------------------------------------------------------------------------
(* Price record builder: create_prices of both adapters.                   *)

(* The record one adapter builds for a matched row: [ok, record]; ok =     *)
(* FALSE is the ValueError of market.py's int(price_conversion(...)).      *)
PriceRecord(ad, watch) ==
    LET text == price_conversion(watch.price)
    IN  IF ad = "seller"
        THEN [ok |-> TRUE,
              record |-> [auto_action_enabled |-> "UNKNOWN",
                          currency_code |-> "RUB",
                          offer_id |-> watch.code,
                          old_price |-> <<"0">>,
                          price |-> text]]
        ELSE IF IntParses(text)
        THEN [ok |-> TRUE,
              record |-> [id |-> watch.code,
                          price |-> [value |-> IntValue(text), currencyId |-> "RUR"]]]
        ELSE [ok |-> FALSE, record |-> [id |-> watch.code]]

PriceId(ad, r) == IF ad = "seller" THEN r.offer_id ELSE r.id

(* A faulty variant of PricesRow: the matched id is removed from the list, *)
(* as create_stocks does.                                                  *)
PricesRowConsuming(ad, st, watch) ==
    IF watch.code \in Elems(st.offer_ids)
    THEN LET r == PriceRecord(ad, watch)
         IN  IF r.ok
             THEN [prices |-> Append(st.prices, r.record),
                   offer_ids |-> Remove(st.offer_ids, watch.code),
                   raised |-> FALSE]
             ELSE [st EXCEPT !.raised = TRUE]
    ELSE st

(* One iteration of the loop of create_prices on the row `watch`, from the *)
(* loop state st = [prices, offer_ids, raised].                            *)
PricesRow(ad, st, watch) ==
    IF watch.code \in Elems(st.offer_ids)
    THEN LET r == PriceRecord(ad, watch)
         IN  IF r.ok
             THEN [st EXCEPT !.prices = Append(@, r.record)]
             ELSE [st EXCEPT !.raised = TRUE]
    ELSE st

(* Rows of the price-builder runs. *)
PriceRows ==
    {Row(c, p, q) : c \in Codes, p \in {PriceFormatted, PriceWord, PricePlain},
                    q \in {<<"5">>, <<"n", "u", "l", "l">>}}

InitPrices ==
    /\ adapter \in {"seller", "market"}
    /\ watch_remnants \in SeqsUpTo(PriceRows, MaxRows)
    /\ offer_ids \in SeqsUpTo(Codes, MaxIds)
    /\ offer_ids_in = offer_ids
    /\ stocks = <<>>
    /\ prices = <<>>
    /\ i = 1
    /\ pc = "rows"
    /\ DivideIdle
    /\ MainIdle
    /\ ConvertIdle
    /\ FetchIdle

(* for watch in watch_remnants: ... (one row) *)
create_prices_row ==
    /\ pc = "rows"
    /\ i <= Len(watch_remnants)
    /\ LET st == PricesRow(adapter,
                           [prices |-> prices, offer_ids |-> offer_ids, raised |-> FALSE],
                           watch_remnants[i])
       IN  /\ prices' = st.prices
           /\ offer_ids' = st.offer_ids
           /\ pc' = IF st.raised THEN "raised" ELSE "rows"
           /\ i' = IF st.raised THEN i ELSE i + 1
    /\ UNCHANGED <<adapter, watch_remnants, offer_ids_in, stocks, divideVars, convertVars, fetchVars, mainVars>>

(* return prices *)
create_prices_return ==
    /\ pc = "rows"
    /\ i > Len(watch_remnants)
    /\ pc' = "returned"
    /\ UNCHANGED <<adapter, watch_remnants, offer_ids, offer_ids_in, stocks, prices, i, divideVars, convertVars, fetchVars, mainVars>>

NextPrices ==
    \/ create_prices_row
    \/ create_prices_return

SpecPrices == InitPrices /\ [][NextPrices]_vars

----------------------------------------------------------------------------
(* Properties of create_prices (checked under SpecPrices).                 *)

(* The rows whose code is among the offer ids the builder was called with. *)
MatchedRows ==
    SelectSeq(watch_remnants, LAMBDA w : \E k \in 1..Len(offer_ids_in) : offer_ids_in[k] = w.code)

(* The digits of the integer part of the sampled prices. *)
NormalizedSample(p) ==
    CASE p = PriceFormatted -> <<"5", "9", "9", "0">>
      [] p = PricePlain -> <<"5", "9", "9", "0">>
      [] p = PriceWord -> <<>>

(* Record r carries the code and the normalized price of row w. *)
CarriesRow(r, w) ==
    IF adapter = "seller"
    THEN r.offer_id = w.code /\ r.price = NormalizedSample(w.price)
    ELSE r.id = w.code /\ NormalizedSample(w.price) # <<>> /\ r.price.value = 5990

(* C5 as stated: for every inventory and offer-id list create_prices (both *)
(* adapters) returns, and returns exactly one record for each row whose    *)
(* code is a known offer id, in inventory order, with the row's code and   *)
(* normalized price; the offer-id list is left unchanged.                  *)
C5_AlwaysReturnsOneRecordPerMatchedRow ==
    /\ offer_ids = offer_ids_in
    /\ pc # "raised"
    /\ pc = "returned" =>
          /\ Len(prices) = Len(MatchedRows)
          /\ \A k \in 1..Len(prices) : CarriesRow(prices[k], MatchedRows[k])

(* C5: the list create_prices returns holds exactly one record for each    *)
(* row whose code is a known offer id, in inventory order, carrying the    *)
(* row's code and normalized price, and nothing else (no overlap: the      *)
(* empty list); the offer-id list is never changed; the records built at   *)
(* any moment are those of the matched rows visited so far.  The Ozon      *)
(* builder always returns; the Yandex builder returns unless a matched     *)
(* row's price normalizes to the empty text.                               *)
C5_OneRecordPerMatchedRow ==
    /\ offer_ids = offer_ids_in
    /\ Len(prices) <= Len(MatchedRows)
    /\ \A k \in 1..Len(prices) : CarriesRow(prices[k], MatchedRows[k])
    /\ pc = "returned" => Len(prices) = Len(MatchedRows)
    /\ pc = "raised" =>
          /\ adapter = "market"
          /\ \E k \in 1..Len(MatchedRows) : NormalizedSample(MatchedRows[k].price) = <<>>
    /\ (pc = "rows" /\ i > Len(watch_remnants)) => ENABLED create_prices_return
    /\ (pc = "returned" /\ Elems(offer_ids_in) \cap {watch_remnants[k].code : k \in 1..Len(watch_remnants)} = {})
          => prices = <<>>

C5_Witness ==
    /\ pc = "returned"
    /\ Len(watch_remnants) = 2
    /\ watch_remnants[1].code = watch_remnants[2].code
    /\ watch_remnants[1].price = PriceFormatted
    /\ Len(prices) = 2
    /\ Len(offer_ids_in) = 2
    /\ offer_ids_in[1] # offer_ids_in[2]

(* C6: in both adapters, when a matched row's price normalizes to the      *)
(* empty text, create_prices ends in a value-parsing error and returns no  *)
(* list; no record with an empty or defaulted price is ever emitted.       *)
C6_EmptyPriceFails ==
    /\ (pc \in {"returned", "raised"}
          /\ \E k \in 1..Len(MatchedRows) : NormalizedSample(MatchedRows[k].price) = <<>>)
          => pc = "raised"
    /\ \A k \in 1..Len(prices) :
          IF adapter = "seller" THEN prices[k].price # <<>> ELSE prices[k].price.value > 0

----------------------------------------------------------------------------
(* divide: the batcher.                                                    *)

Min(a, b) == IF a < b THEN a ELSE b

(* Python's lst[a:b] for 0 <= a <= b: the elements at offsets a .. b-1,    *)
(* cut at the end of the list.                                             *)
Slice(s, a, b) == SubSeq(s, a + 1, Min(b, Len(s)))

(* A faulty variant of DivideBatch: the slice ends one element early.      *)
DivideBatchShort(s, off, size) == Slice(s, off, off + size - 1)

(* The batch the generator yields at offset off: lst[i : i + n].           *)
DivideBatch(s, off, size) == Slice(s, off, off + size)

(* list(divide(lst, n)): every batch, for i in range(0, len(lst), n).      *)
RECURSIVE DivideFrom(_, _, _)
DivideFrom(s, off, size) ==
    IF off >= Len(s) THEN <<>>
    ELSE <<DivideBatch(s, off, size)>> \o DivideFrom(s, off + size, size)

divide(s, size) == DivideFrom(s, 0, size)

Elements == {"a", "b", "c"}

InitDivide ==
    /\ lst \in SeqsUpTo(Elements, MaxLen)
    /\ n \in 1..MaxChunk
    /\ yielded = <<>>
    /\ i = 0
    /\ pc = "range"
    /\ adapter = "none" /\ watch_remnants = <<>> /\ offer_ids = <<>>
    /\ offer_ids_in = <<>> /\ stocks = <<>> /\ prices = <<>>
    /\ MainIdle
    /\ ConvertIdle
    /\ FetchIdle

(* one iteration of the generator: yield lst[i : i + n] *)
divide_yield ==
    /\ pc = "range"
    /\ i < Len(lst)
    /\ yielded' = Append(yielded, DivideBatch(lst, i, n))
    /\ i' = i + n
    /\ UNCHANGED <<lst, n, pc, adapter, watch_remnants, offer_ids, offer_ids_in,
                   stocks, prices, mainVars, convertVars, fetchVars>>

(* range(0, len(lst), n) is exhausted: the generator stops *)
divide_stop ==
    /\ pc = "range"
    /\ i >= Len(lst)
    /\ pc' = "exhausted"
    /\ UNCHANGED <<lst, n, yielded, i, adapter, watch_remnants, offer_ids, offer_ids_in,
                   stocks, prices, mainVars, convertVars, fetchVars>>

NextDivide ==
    \/ divide_yield
    \/ divide_stop

SpecDivide == InitDivide /\ [][NextDivide]_vars

RECURSIVE Concat(_)
Concat(ss) == IF ss = <<>> THEN <<>> ELSE ss[1] \o Concat(Tail(ss))

(* C8: the batches yielded so far, concatenated in yield order, are the    *)
(* list up to the generator's position, and the whole list once it stops;  *)
(* no batch is empty or longer than n, every batch but the last has length *)
(* n, and an empty list yields no batch.                                   *)
C8_DividePartitions ==
    /\ Concat(yielded) = SubSeq(lst, 1, Min(i, Len(lst)))
    /\ pc = "exhausted" => Concat(yielded) = lst
    /\ \A k \in 1..Len(yielded) : Len(yielded[k]) >= 1 /\ Len(yielded[k]) <= n
    /\ \A k \in 1..(Len(yielded) - 1) : Len(yielded[k]) = n
    /\ lst = <<>> => yielded = <<>>
    /\ pc = "exhausted" => yielded = divide(lst, n)

C8_Witness ==
    /\ pc = "exhausted"
    /\ Len(lst) = 3
    /\ n = 2
    /\ Len(yielded) = 2
    /\ Len(yielded[2]) = 1

----------------------------------------------------------------------------
(* The builders as whole calls, as main uses them.                         *)

RECURSIVE StocksRows(_, _, _, _)
StocksRows(ad, warehouse_id, st, rows) ==
    IF rows = <<>> \/ st.raised THEN st
    ELSE StocksRows(ad, warehouse_id, StocksRow(ad, warehouse_id, st, Head(rows)), Tail(rows))

RECURSIVE StocksDefaults(_, _, _, _)
StocksDefaults(ad, warehouse_id, st, ids) ==
    IF ids = <<>> THEN st
    ELSE StocksDefaults(ad, warehouse_id,
                        StocksDefault(ad, warehouse_id, st, Head(ids)), Tail(ids))

(* create_stocks(watch_remnants, offer_ids[, warehouse_id]): the list it   *)
(* returns, the offer-id list as it leaves it, and whether it raised.      *)
create_stocks(ad, warehouse_id, rows, ids) ==
    LET st == StocksRows(ad, warehouse_id,
                         [stocks |-> <<>>, offer_ids |-> ids, raised |-> FALSE], rows)
    IN  IF st.raised THEN st
        ELSE StocksDefaults(ad, warehouse_id, st, st.offer_ids)

RECURSIVE PricesRows(_, _, _)
PricesRows(ad, st, rows) ==
    IF rows = <<>> \/ st.raised THEN st
    ELSE PricesRows(ad, PricesRow(ad, st, Head(rows)), Tail(rows))

create_prices(ad, rows, ids) ==
    PricesRows(ad, [prices |-> <<>>, offer_ids |-> ids, raised |-> FALSE], rows)

----------------------------------------------------------------------------
(* get_offer_ids and the marketplace listing it pages through.             *)

OfferItem(ad, id) ==
    IF ad = "seller" THEN [offer_id |-> id] ELSE [offer |-> [shopSku |-> id]]

ItemOfferId(ad, item) == IF ad = "seller" THEN item.offer_id ELSE item.offer.shopSku

(* The "result" of a successful page request: a marketplace that holds the *)
(* offers `held` and is asked for the page at `cursor` (0 is the empty     *)
(* cursor, k the cursor after the k-th item) returns the next ServerPage   *)
(* items with, for Ozon, the total and the new last_id and, for Yandex,    *)
(* the next page token, empty after the last page.  A cursor past the end  *)
(* of the listing (offers were removed meanwhile) stands at its end.       *)
ListingPage(ad, held, cursor) ==
    LET from == Min(cursor, Len(held))
        upto == Min(from + ServerPage, Len(held))
        items == [k \in 1..(upto - from) |-> OfferItem(ad, held[from + k])]
    IN  IF ad = "seller"
        THEN [items |-> items, total |-> Len(held), last_id |-> upto]
        ELSE [offerMappingEntries |-> items,
              paging |-> [nextPageToken |-> IF upto < Len(held) THEN upto ELSE 0]]

(* dict.get(key): the value under the key, None when the key is absent.   *)
(* Cursors are numbers: 0 is the empty string, a positive number a         *)
(* non-empty token, None the value of an absent key.                       *)
None == 0 - 1
DictGet(dict, key) == IF key \in DOMAIN dict THEN dict[key] ELSE None

(* Python's truth value of a cursor: the empty string and None are false.  *)
Truthy(v) == v # 0 /\ v # None

(* A loop body that leaves the cursor as it was. *)
GetOfferIdsStepSameCursor(ad, st, some_prod) ==
    IF ad = "seller"
    THEN LET pl == st.product_list \o some_prod.items
         IN  [page |-> st.page, product_list |-> pl,
              done |-> (some_prod.total = Len(pl))]
    ELSE LET pl == st.product_list \o some_prod.offerMappingEntries
             token == DictGet(some_prod.paging, "nextPageToken")
         IN  [page |-> st.page, product_list |-> pl, done |-> ~Truthy(token)]

(* One iteration of the loop of get_offer_ids on the response some_prod,   *)
(* from the loop state st = [page, product_list]: the new state and        *)
(* whether the loop breaks.                                                *)
GetOfferIdsStep(ad, st, some_prod) ==
    IF ad = "seller"
    THEN LET pl == st.product_list \o some_prod.items
         IN  [page |-> some_prod.last_id, product_list |-> pl,
              done |-> (some_prod.total = Len(pl))]
    ELSE LET pl == st.product_list \o some_prod.offerMappingEntries
             token == DictGet(some_prod.paging, "nextPageToken")
         IN  [page |-> token, product_list |-> pl, done |-> ~Truthy(token)]

(* The list get_offer_ids returns: the offer id of every accumulated item. *)
OfferIdsOf(ad, items) == [k \in 1..Len(items) |-> ItemOfferId(ad, items[k])]

----------------------------------------------------------------------------
(* main of seller.py and of market.py.                                     *)

Errors == {"ReadTimeout", "ConnectionError", "HTTPError"}

(* What the except clauses of main print for an exception. *)
ExceptMessage(err) ==
    IF err = "ReadTimeout" THEN "timeout"
    ELSE IF err = "ConnectionError" THEN "connection"
    ELSE "ERROR_2"

(* Whether the statement at `at` is inside main's try block: market.py     *)
(* calls download_stock before its try.                                    *)
InTry(ad, at) == ~(ad = "market" /\ at = "download_stock")

(* An exception raised by the statement at pc: caught and printed, or      *)
(* leaving main.                                                           *)
Raise(err) ==
    /\ pc' = "done"
    /\ outcome' = IF InTry(adapter, pc) THEN "returned" ELSE "escaped"
    /\ message' = IF InTry(adapter, pc) THEN ExceptMessage(err) ELSE ""

Targets(ad) == IF ad = "seller" THEN {"ozon"} ELSE {"fbs", "dbs"}

WarehouseFor(t) ==
    IF t = "fbs" THEN "WAREHOUSE_FBS_ID"
    ELSE IF t = "dbs" THEN "WAREHOUSE_DBS_ID"
    ELSE "none"

StocksChunk(ad) == IF ad = "seller" THEN SellerStocksChunk ELSE MarketStocksChunk

Call(op, arg, ok) == [op |-> op, target |-> target, arg |-> arg, ok |-> ok]

(* A faulty variant of AfterWrite: a failed write is swallowed and the     *)
(* loop goes on with the next batch.                                       *)
AfterWriteSwallowing(batches, result) ==
    [queue |-> Tail(batches), raised |-> FALSE]

(* One iteration of an upload loop, after the write call for the first     *)
(* batch of `batches` ended with `result`: raise_for_status lets the error *)
(* leave the loop, otherwise the loop goes on with the next batch.         *)
AfterWrite(batches, result) ==
    IF result = "ok"
    THEN [queue |-> Tail(batches), raised |-> FALSE]
    ELSE [queue |-> batches, raised |-> TRUE]

(* Rows of the supplier feed in the runs of main. *)
FeedRows ==
    {Row(c, PriceFormatted, q) : c \in Codes, q \in {<<"5">>, <<"n", "u", "l", "l">>}}

Init ==
    /\ adapter \in {"seller", "market"}
    /\ feed \in SeqsUpTo(FeedRows, MaxFeed)
    /\ listing \in [Targets(adapter) -> SeqsUpTo(Codes, MaxListing)]
    /\ target = IF adapter = "seller" THEN "ozon" ELSE "fbs"
    /\ pc = IF adapter = "seller" THEN "get_offer_ids" ELSE "download_stock"
    /\ page = 0
    /\ product_list = <<>>
    /\ watch_remnants = <<>>
    /\ offer_ids = <<>>
    /\ offer_ids_in = <<>>
    /\ stocks = <<>>
    /\ prices = <<>>
    /\ queue = <<>>
    /\ calls = <<>>
    /\ coroutines = <<>>
    /\ outcome = "running"
    /\ message = ""
    /\ i = 0
    /\ DivideIdle
    /\ ConvertIdle
    /\ FetchIdle

(* get_offer_ids: one page request and the loop body after it; the last    *)
(* page ends the loop and the offer ids are returned to main.              *)
get_product_list_call ==
    /\ outcome = "running"
    /\ pc = "get_offer_ids"
    /\ \E result \in {"ok"} \cup Errors :
          /\ calls' = Append(calls, Call("get_product_list", page, result = "ok"))
          /\ IF result = "ok"
             THEN LET st == GetOfferIdsStep(adapter,
                                [page |-> page, product_list |-> product_list],
                                ListingPage(adapter, listing[target], page))
                  IN  /\ page' = st.page
                      /\ product_list' = st.product_list
                      /\ offer_ids' = IF st.done THEN OfferIdsOf(adapter, st.product_list)
                                      ELSE offer_ids
                      /\ offer_ids_in' = offer_ids'
                      /\ pc' = IF ~st.done THEN "get_offer_ids"
                               ELSE IF adapter = "seller" THEN "download_stock"
                               ELSE "create_stocks"
                      /\ UNCHANGED <<outcome, message>>
             ELSE /\ Raise(result)
                  /\ UNCHANGED <<page, product_list, offer_ids, offer_ids_in>>
    /\ UNCHANGED <<adapter, watch_remnants, stocks, prices, i, divideVars, convertVars, fetchVars,
                   target, feed, listing, queue, coroutines>>

(* download_stock(): the supplier feed is fetched and decoded.             *)
download_stock_call ==
    /\ outcome = "running"
    /\ pc = "download_stock"
    /\ \E result \in {"ok"} \cup Errors :
          /\ calls' = Append(calls, Call("download_stock", 0, result = "ok"))
          /\ IF result = "ok"
             THEN /\ watch_remnants' = feed
                  /\ pc' = IF adapter = "seller" THEN "create_stocks" ELSE "get_offer_ids"
                  /\ UNCHANGED <<outcome, message>>
             ELSE /\ Raise(result)
                  /\ UNCHANGED watch_remnants
    /\ UNCHANGED <<adapter, offer_ids, offer_ids_in, stocks, prices, i, divideVars, convertVars, fetchVars,
                   target, feed, listing, page, product_list, queue, coroutines>>

(* stocks = create_stocks(...) and list(divide(stocks, chunk)).            *)
main_create_stocks ==
    /\ outcome = "running"
    /\ pc = "create_stocks"
    /\ LET r == create_stocks(adapter, WarehouseFor(target), watch_remnants, offer_ids)
       IN  /\ offer_ids' = r.offer_ids
           /\ IF r.raised
              THEN /\ Raise("ValueError")
                   /\ UNCHANGED <<stocks, queue>>
              ELSE /\ stocks' = r.stocks
                   /\ queue' = divide(r.stocks, StocksChunk(adapter))
                   /\ pc' = "update_stocks"
                   /\ UNCHANGED <<outcome, message>>
    /\ UNCHANGED <<adapter, watch_remnants, offer_ids_in, prices, i, divideVars, convertVars, fetchVars,
                   target, feed, listing, page, product_list, calls, coroutines>>

(* update_stocks(some_stock, ...): the write call for the next stock batch *)
update_stocks_call ==
    /\ outcome = "running"
    /\ pc = "update_stocks"
    /\ queue # <<>>
    /\ \E result \in {"ok"} \cup Errors :
          /\ calls' = Append(calls, Call("update_stocks", Head(queue), result = "ok"))
          /\ LET after == AfterWrite(queue, result)
             IN  /\ queue' = after.queue
                 /\ IF after.raised
                    THEN Raise(result)
                    ELSE UNCHANGED <<pc, outcome, message>>
    /\ UNCHANGED <<builderVars_but_pc, divideVars, convertVars, fetchVars,
                   target, feed, listing, page, product_list, coroutines>>

(* seller.py, after the stock loop: prices = create_prices(watch_remnants, *)
(* offer_ids), with the list create_stocks has left, and                   *)
(* list(divide(prices, 900)).                                              *)
seller_create_prices ==
    /\ outcome = "running"
    /\ pc = "update_stocks"
    /\ queue = <<>>
    /\ adapter = "seller"
    /\ LET r == create_prices(adapter, watch_remnants, offer_ids)
       IN  IF r.raised
           THEN /\ Raise("ValueError")
                /\ UNCHANGED <<prices, queue>>
           ELSE /\ prices' = r.prices
                /\ queue' = divide(r.prices, SellerPricesChunk)
                /\ pc' = "update_price"
                /\ UNCHANGED <<outcome, message>>
    /\ UNCHANGED <<adapter, watch_remnants, offer_ids, offer_ids_in, stocks, i, divideVars, convertVars, fetchVars,
                   target, feed, listing, page, product_list, calls, coroutines>>

(* market.py, after the stock loop: upload_prices(...) is an async def     *)
(* called without await, so the call only creates a coroutine object and   *)
(* none of its body runs; main goes on to the DBS campaign or returns.     *)
market_upload_prices ==
    /\ outcome = "running"
    /\ pc = "update_stocks"
    /\ queue = <<>>
    /\ adapter = "market"
    /\ coroutines' = Append(coroutines, [fn |-> "upload_prices", campaign_id |-> target])
    /\ IF target = "fbs"
       THEN /\ target' = "dbs"
            /\ pc' = "get_offer_ids"
            /\ page' = 0
            /\ product_list' = <<>>
            /\ UNCHANGED outcome
       ELSE /\ pc' = "done"
            /\ outcome' = "returned"
            /\ UNCHANGED <<target, page, product_list>>
    /\ UNCHANGED <<builderVars_but_pc, divideVars, convertVars, fetchVars, feed, listing, queue, calls, message>>

(* update_price(some_price, ...): the write call for the next price batch  *)
update_price_call ==
    /\ outcome = "running"
    /\ pc = "update_price"
    /\ queue # <<>>
    /\ \E result \in {"ok"} \cup Errors :
          /\ calls' = Append(calls, Call("update_price", Head(queue), result = "ok"))
          /\ LET after == AfterWrite(queue, result)
             IN  /\ queue' = after.queue
                 /\ IF after.raised
                    THEN Raise(result)
                    ELSE UNCHANGED <<pc, outcome, message>>
    /\ UNCHANGED <<builderVars_but_pc, divideVars, convertVars, fetchVars,
                   target, feed, listing, page, product_list, coroutines>>

(* seller.py: the price loop is exhausted and main returns.                *)
main_return ==
    /\ outcome = "running"
    /\ pc = "update_price"
    /\ queue = <<>>
    /\ pc' = "done"
    /\ outcome' = "returned"
    /\ UNCHANGED <<builderVars_but_pc, divideVars, convertVars, fetchVars,
                   target, feed, listing, page, product_list, queue, calls, coroutines,
                   message>>

Next ==
    \/ get_product_list_call
    \/ download_stock_call
    \/ main_create_stocks
    \/ update_stocks_call
    \/ seller_create_prices
    \/ market_upload_prices
    \/ update_price_call
    \/ main_return

Spec == Init /\ [][Next]_vars

----------------------------------------------------------------------------
(* Properties of the runs of main (checked under Spec).                    *)

Succeeded == outcome = "returned" /\ message = ""

(* The batches of the calls of operation op issued for target t, in call   *)
(* order.                                                                  *)
SentBatches(op, t) ==
    LET sent == SelectSeq(calls, LAMBDA c : c.op = op /\ c.target = t)
    IN  [k \in 1..Len(sent) |-> sent[k].arg]

(* The rows of the feed whose code is among the offer ids `ids`. *)
RowsKnownTo(ids) ==
    SelectSeq(feed, LAMBDA w : \E k \in 1..Len(ids) : ids[k] = w.code)

(* C2: in a run of seller.main in which every request succeeds and nothing *)
(* fails to parse, the price records passed to update_price are exactly    *)
(* one per feed row whose code is among the offer ids get_offer_ids        *)
(* fetched at the start of the run.                                        *)
C2_PricesForEveryMatchedOffer ==
    (adapter = "seller" /\ Succeeded) =>
        LET uploaded == Concat(SentBatches("update_price", "ozon"))
            matched == RowsKnownTo(offer_ids_in)
        IN  /\ Len(uploaded) = Len(matched)
            /\ \A k \in 1..Len(uploaded) : uploaded[k].offer_id = matched[k].code

(* The phase of a call within the run of one target. *)
Phase(op) ==
    IF op = "update_stocks" THEN 2 ELSE IF op = "update_price" THEN 3 ELSE 1

(* The price records built for target t: those main built (Ozon), those    *)
(* upload_prices is called to build from the campaign's offers (Yandex).   *)
PriceRecordsOf(t) ==
    IF t = "ozon" THEN prices
    ELSE create_prices("market", watch_remnants, listing[t]).prices

(* C3: in a run in which every request succeeds, the calls of each target  *)
(* come in the order page requests, stock writes, price writes, one stock  *)
(* write per stock batch, each call completed before the next; and a       *)
(* target whose price record list is not empty gets at least one           *)
(* update_price call before the run moves on or ends.                      *)
C3_CallsInOrderAndPricesUploaded ==
    Succeeded =>
        \A t \in Targets(adapter) :
            /\ \A j, k \in 1..Len(calls) :
                  (j < k /\ calls[j].target = t /\ calls[k].target = t
                     /\ calls[j].op # "download_stock" /\ calls[k].op # "download_stock")
                     => Phase(calls[j].op) <= Phase(calls[k].op)
            /\ Len(Concat(SentBatches("update_stocks", t))) = Len(listing[t])
            /\ PriceRecordsOf(t) # <<>> => SentBatches("update_price", t) # <<>>

IsWrite(c) == c.op \in {"update_stocks", "update_price"}

(* C9: a write call that failed is the last call of the run: no batch      *)
(* after it is sent, it is not sent again, nothing compensates the batches *)
(* before it, and no later step of the run is attempted; the run has ended *)
(* with a message; the batches sent before it are the batches before it in *)
(* batch order, each once, and they were applied.                          *)
C9_FailedWriteEndsTheRun ==
    \A k \in 1..Len(calls) :
        (IsWrite(calls[k]) /\ ~calls[k].ok) =>
            /\ k = Len(calls)
            /\ pc = "done" /\ outcome = "returned" /\ message # ""
            /\ ~ ENABLED Next
            /\ LET op == calls[k].op
                   batches == IF op = "update_stocks"
                              THEN divide(stocks, StocksChunk(adapter))
                              ELSE divide(prices, SellerPricesChunk)
                   sent == SelectSeq(calls, LAMBDA c : c.op = op /\ c.target = target)
               IN  /\ Len(sent) <= Len(batches)
                   /\ \A j \in 1..Len(sent) : sent[j].arg = batches[j]
                   /\ \A j \in 1..(Len(sent) - 1) : sent[j].ok
                   /\ queue = SubSeq(batches, Len(sent), Len(batches))

C9_Witness ==
    /\ Len(calls) >= 2
    /\ calls[Len(calls)].op = "update_stocks"
    /\ ~calls[Len(calls)].ok
    /\ calls[Len(calls) - 1].op = "update_stocks"
    /\ calls[Len(calls) - 1].ok
    /\ calls[Len(calls) - 1].target = calls[Len(calls)].target
    /\ prices = <<>>

(* C10: in both entry points every transport error of a request and every  *)
(* value-parsing error of a builder is caught and reported as a message:   *)
(* main always returns normally and no error escapes it.                   *)
C10_NoErrorEscapesMain ==
    /\ outcome # "escaped"
    /\ (\E k \in 1..Len(calls) : ~calls[k].ok) => (outcome = "returned" /\ message # "")

----------------------------------------------------------------------------
(* price_conversion on its own: the function is applied to a price text,   *)
(* and then once more to the value it returned.  One application is two    *)
(* steps, as in the return statement: the split, then the substitution.    *)

(* The characters of the sampled price texts: two digits, the separator    *)
(* the split looks for, and three characters the substitution removes      *)
(* (apostrophe, blank, letter), as in the docstring's example price.       *)
PriceChars == {"5", "0", ".", "'", " ", "p"}

(* The argument of the call in hand: the given price, then the value the   *)
(* previous call returned.                                                 *)
ConvertArg == IF converted = <<>> THEN price ELSE converted[Len(converted)]

InitConvert ==
    /\ price \in SeqsUpTo(PriceChars, MaxPrice)
    /\ part = <<>>
    /\ converted = <<>>
    /\ pc = "split"
    /\ adapter = "seller" /\ watch_remnants = <<>> /\ offer_ids = <<>>
    /\ offer_ids_in = <<>> /\ stocks = <<>> /\ prices = <<>> /\ i = 0
    /\ DivideIdle
    /\ MainIdle
    /\ FetchIdle

(* price.split(".")[0] *)
price_conversion_split ==
    /\ pc = "split"
    /\ Len(converted) < 2
    /\ part' = BeforeDot(ConvertArg)
    /\ pc' = "sub"
    /\ UNCHANGED <<price, converted, builderVars_but_pc, divideVars, mainVars, fetchVars>>

(* return re.sub("[^0-9]", "", ...) *)
price_conversion_sub ==
    /\ pc = "sub"
    /\ converted' = Append(converted, OnlyDigits(part))
    /\ pc' = "split"
    /\ UNCHANGED <<price, part, builderVars_but_pc, divideVars, mainVars, fetchVars>>

NextConvert == price_conversion_split \/ price_conversion_sub

SpecConvert == InitConvert /\ [][NextConvert]_vars

(* The positions of p before its first "." that hold a decimal digit. *)
DecimalDigits == {"0", "1", "2", "3", "4", "5", "6", "7", "8", "9"}
DotPositions(p) == {k \in 1..Len(p) : p[k] = "."}
DigitPositionsBeforeDot(p) ==
    {k \in 1..Len(p) : p[k] \in DecimalDigits /\ \A d \in DotPositions(p) : k < d}
NthPosition(P, j) == CHOOSE k \in P : Cardinality({m \in P : m < k}) = j - 1

(* C11: price_conversion(p) is the text of exactly the decimal digits of p *)
(* that stand before its first ".", in their order (the empty text when    *)
(* there is none); applying it to its own result returns that result       *)
(* again, and a text of digits only is returned unchanged.                 *)
C11_DigitsBeforeFirstDot ==
    /\ Len(converted) >= 1 =>
          LET P == DigitPositionsBeforeDot(price)
              r == converted[1]
          IN  /\ Len(r) = Cardinality(P)
              /\ \A j \in 1..Len(r) : r[j] = price[NthPosition(P, j)]
              /\ (P = {} => r = <<>>)
              /\ r = price_conversion(price)
              /\ ((\A k \in 1..Len(price) : price[k] \in DecimalDigits) => r = price)
    /\ Len(converted) = 2 => converted[2] = converted[1]

(* The function was applied twice to 5'.0 (a digit, a removed character,   *)
(* the separator and a digit after it).                                    *)
C11_Witness ==
    /\ price = <<"5", "'", ".", "0">>
    /\ converted = << <<"5">>, <<"5">> >>

----------------------------------------------------------------------------
(* get_offer_ids on its own, against a marketplace that answers every page *)
(* request successfully with any well-formed response: any items, any      *)
(* continuation value and, for Ozon, any total.                            *)

(* The item lists of the sampled page responses. *)
PageItems(ad) ==
    {[k \in 1..Len(ids) |-> OfferItem(ad, ids[k])] :
        ids \in {<<>>, <<"101">>, <<"102">>, <<"101", "102">>}}

(* The continuation values of the sampled responses: Ozon's last_id (empty *)
(* or a token), Yandex's paging with or without a nextPageToken (empty or  *)
(* one of two tokens).                                                     *)
LastIds == {0, 1}
Pagings == [{"nextPageToken"} -> {0, 1, 2}] \cup [{} -> {0}]

(* The "result" objects get_product_list can return. *)
Responses(ad) ==
    IF ad = "seller"
    THEN [items : PageItems(ad), total : 0..MaxTotal, last_id : LastIds]
    ELSE [offerMappingEntries : PageItems(ad), paging : Pagings]

InitFetch ==
    /\ adapter \in {"seller", "market"}
    /\ target = IF adapter = "seller" THEN "ozon" ELSE "fbs"
    /\ pc = "get_offer_ids"
    /\ page = 0
    /\ product_list = <<>>
    /\ offer_ids = <<>>
    /\ calls = <<>>
    /\ responses = <<>>
    /\ edits = 0
    /\ parity = 0
    /\ watch_remnants = <<>> /\ offer_ids_in = <<>> /\ stocks = <<>> /\ prices = <<>>
    /\ i = 0
    /\ feed = <<>> /\ listing = <<>> /\ queue = <<>> /\ coroutines = <<>>
    /\ outcome = "none" /\ message = ""
    /\ DivideIdle
    /\ ConvertIdle

(* One turn of the while loop: the page request with the current cursor,   *)
(* the loop body on its response and, when the loop breaks, the second     *)
(* loop and the return.                                                    *)
get_offer_ids_page ==
    /\ pc = "get_offer_ids"
    /\ Len(calls) < MaxRequests
    /\ \E some_prod \in Responses(adapter) :
          LET st == GetOfferIdsStep(adapter,
                        [page |-> page, product_list |-> product_list], some_prod)
          IN  /\ calls' = Append(calls, Call("get_product_list", page, TRUE))
              /\ responses' = Append(responses, some_prod)
              /\ parity' = 1 - parity
              /\ page' = st.page
              /\ product_list' = st.product_list
              /\ offer_ids' = IF st.done THEN OfferIdsOf(adapter, st.product_list)
                              ELSE offer_ids
              /\ pc' = IF st.done THEN "returned" ELSE "get_offer_ids"
    /\ UNCHANGED <<adapter, watch_remnants, offer_ids_in, stocks, prices, i, divideVars,
                   convertVars, target, feed, listing, queue, coroutines, outcome,
                   message, edits>>

NextFetch == get_offer_ids_page

SpecFetch == InitFetch /\ [][NextFetch]_vars

(* What a response carries: its items' offer ids, its continuation value   *)
(* (absent: None), and the items received up to and including it.          *)
ReceivedIds(k) ==
    LET its == IF adapter = "seller" THEN responses[k].items
               ELSE responses[k].offerMappingEntries
    IN  [j \in 1..Len(its) |->
            IF adapter = "seller" THEN its[j].offer_id ELSE its[j].offer.shopSku]

RECURSIVE ReceivedUpTo(_)
ReceivedUpTo(k) == IF k = 0 THEN <<>> ELSE ReceivedUpTo(k - 1) \o ReceivedIds(k)

Continuation(k) ==
    IF adapter = "seller" THEN responses[k].last_id
    ELSE IF "nextPageToken" \in DOMAIN responses[k].paging
         THEN responses[k].paging.nextPageToken
         ELSE None

(* The termination signal in response k: Yandex, an empty or absent token; *)
(* Ozon, a total equal to the number of items received so far.             *)
TerminationSignal(k) ==
    IF adapter = "seller" THEN responses[k].total = Len(ReceivedUpTo(k))
    ELSE \/ "nextPageToken" \notin DOMAIN responses[k].paging
         \/ responses[k].paging.nextPageToken = 0

(* C13: the first page request carries the empty cursor and each later one *)
(* the continuation value of the response just received; no request        *)
(* follows a response with the termination signal, the call has returned   *)
(* exactly when the last response carries it, and it then returns the      *)
(* offer id of every item of every received page, in page and item order.  *)
C13_CursorChainStopAndResult ==
    /\ Len(calls) = Len(responses)
    /\ \A k \in 1..Len(calls) :
          calls[k].arg = IF k = 1 THEN 0 ELSE Continuation(k - 1)
    /\ \A k \in 1..(Len(responses) - 1) : ~TerminationSignal(k)
    /\ pc = "returned" <=> (responses # <<>> /\ TerminationSignal(Len(responses)))
    /\ pc = "returned" => offer_ids = ReceivedUpTo(Len(responses))

(* Yandex: a page, a second page requested with the token of the first     *)
(* response, and the return after a response without a token.              *)
C13_Witness ==
    /\ adapter = "market"
    /\ pc = "returned"
    /\ Len(responses) = 2
    /\ responses[1].paging = [nextPageToken |-> 2]
    /\ calls[2].arg = 2
    /\ "nextPageToken" \notin DOMAIN responses[2].paging
    /\ offer_ids = <<"101", "102", "101">>

----------------------------------------------------------------------------
(* get_offer_ids against a marketplace that holds a finite listing, pages  *)
(* through it as ListingPage does, answers every request, and whose        *)
(* listing may change between two requests (at most MaxEdits times).       *)

(* The listings of this marketplace: every offer id at most once (the ids  *)
(* of the docstring's example).                                            *)
Listings ==
    {held \in SeqsUpTo({"101", "102", "103"}, MaxListing) :
        \A a, b \in 1..Len(held) : a # b => held[a] # held[b]}

InitListing ==
    /\ adapter \in {"seller", "market"}
    /\ target = IF adapter = "seller" THEN "ozon" ELSE "fbs"
    /\ listing \in [{target} -> Listings]
    /\ edits = 0
    /\ parity = 0
    /\ pc = "get_offer_ids"
    /\ page = 0
    /\ product_list = <<>>
    /\ offer_ids = <<>>
    /\ calls = <<>>
    /\ responses = <<>>
    /\ watch_remnants = <<>> /\ offer_ids_in = <<>> /\ stocks = <<>> /\ prices = <<>>
    /\ i = 0
    /\ feed = <<>> /\ queue = <<>> /\ coroutines = <<>>
    /\ outcome = "none" /\ message = ""
    /\ DivideIdle
    /\ ConvertIdle

(* One turn of the while loop: the page request with the current cursor,   *)
(* answered from the listing as it is now, the loop body and, when the     *)
(* loop breaks, the second loop and the return.                            *)
get_offer_ids_turn ==
    /\ pc = "get_offer_ids"
    /\ LET st == GetOfferIdsStep(adapter,
                     [page |-> page, product_list |-> product_list],
                     ListingPage(adapter, listing[target], page))
       IN  /\ page' = st.page
           /\ product_list' = st.product_list
           /\ offer_ids' = IF st.done THEN OfferIdsOf(adapter, st.product_list)
                           ELSE offer_ids
           /\ pc' = IF st.done THEN "returned" ELSE "get_offer_ids"
    /\ parity' = 1 - parity
    /\ UNCHANGED <<adapter, watch_remnants, offer_ids_in, stocks, prices, i, divideVars,
                   convertVars, responses, edits, target, feed, listing, queue, calls,
                   coroutines, outcome, message>>

(* The marketplace: offers are added to or removed from the listing while  *)
(* the call is paging through it.                                          *)
listing_changes ==
    /\ pc = "get_offer_ids"
    /\ edits < MaxEdits
    /\ \E held \in Listings :
          /\ held # listing[target]
          /\ listing' = [listing EXCEPT ![target] = held]
    /\ edits' = edits + 1
    /\ UNCHANGED <<builderVars, divideVars, convertVars, responses, parity, target, feed,
                   page, product_list, queue, calls, coroutines, outcome, message>>

NextListing == get_offer_ids_turn \/ listing_changes

(* The loop is synchronous and every request is answered, so a turn that   *)
(* can be taken is taken; nothing obliges the listing to change.           *)
SpecListing == InitListing /\ [][NextListing]_vars /\ WF_vars(get_offer_ids_turn)

(* C14: against a finite listing that answers every page request,          *)
(* get_offer_ids of either adapter eventually returns, also when the       *)
(* listing is empty, when the reported total changes between two requests  *)
(* and when a page brings no new item.                                     *)
C14_EventuallyReturns == <>(pc = "returned")

============================================================================
